---- MODULE Spec2Model ----
(***************************************************************************)
(* State-machine model of nilmtk/reddstore.py: the REDDStore adapter       *)
(* (construction, load_metadata, elements_below_key, load) together with   *)
(* the files it reads (house directories, labels.dat, channel_N.dat).      *)
(***************************************************************************)
EXTENDS Integers, Sequences, FiniteSets, TLC

VARIABLES
    self_path,   \* REDDStore.path of the adapter object
    table,       \* the module-level dict MAP_REDD_LABELS_TO_NILMTK
    disk,        \* the dataset directory on disk
    last,        \* the most recent call of an operation and its outcome
    gen          \* the generator object returned by the most recent load()

vars == <<self_path, table, disk, last, gen>>

-----------------------------------------------------------------------------
(* Bounds of the model *)

\* channel numbers that may appear in a labels.dat are 1..MaxChan
MaxChan == 3
\* a channel file holds at most MaxRows rows
MaxRows == 3
\* a load() call is given at most MaxPeriods time windows
MaxPeriods == 2

-----------------------------------------------------------------------------
(* Python values *)

\* Python's None where an integer is expected (Key.building, Key.meter)
None == -1
\* Key.utility is None
NoUtility == "None"

\* dict.update(other): the entries of e replace or extend those of d
Update(d, e) ==
    [k \in (DOMAIN d) \cup (DOMAIN e) |-> IF k \in DOMAIN e THEN e[k] ELSE d[k]]

\* an operation that returns v
Return(v, tbl) == [status |-> "ok", value |-> v, table |-> tbl]
\* an operation that raises an exception of class cls
Raise(cls, msg, tbl) == [status |-> cls, value |-> msg, table |-> tbl]

-----------------------------------------------------------------------------
(* The static mapping table, reddstore.py lines 11-64 *)

MAP_REDD_LABELS_TO_NILMTK ==
    [air_conditioning |-> [appliances |-> <<[type |-> "air conditioner"]>>],
     bathroom_gfi     |-> [room |-> [name |-> "bathroom"], category |-> "misc"],
     dishwaser        |-> [appliances |-> <<[type |-> "dish washer"]>>],
     disposal         |-> [appliances |-> <<[type |-> "waste disposal unit"]>>],
     electric_heat    |-> [appliances |-> <<[type |-> "electric space heater"]>>],
     electronics      |-> [category |-> "consumer electronics"],
     furance          |-> [appliances |-> <<[type |-> "electric boiler"]>>],
     kitchen_outlets  |-> [room |-> [name |-> "kitchen"], category |-> "sockets"],
     lighting         |-> [category |-> "lighting"],
     microwave        |-> [appliances |-> <<[type |-> "microwave"]>>],
     miscellaeneous   |-> [category |-> "misc"],
     outdoor_outlets  |-> [room |-> [name |-> "outdoors"], category |-> "sockets"],
     outlets_unknown  |-> [category |-> "sockets"],
     oven             |-> [appliances |-> <<[type |-> "electric oven"]>>],
     refrigerator     |-> [appliances |-> <<[type |-> "fridge"]>>],
     smoke_alarms     |-> [appliances |-> <<[type |-> "smoke alarm", multiple |-> TRUE]>>],
     stove            |-> [appliances |-> <<[type |-> "electric stove"]>>],
     subpanel         |-> [x \in {} |-> TRUE],
     washer_dryer     |-> [appliances |-> <<[type |-> "washer dryer"]>>]]

-----------------------------------------------------------------------------
(* Inputs *)

\* the path the dataset lives at, and a path that is no directory
RootPath == "/data/REDD/low_freq"
NotADir == "/data/REDD/README"
Paths == {RootPath, NotADir}

\* os.path.isdir(path) for the construction path
isdir(p) == p = RootPath

\* building numbers asked for: both sides of each end of the range 1..6
BuildingNums == {0, 1, 6, 7}
\* the house directories the dataset may hold (house_6 is a REDD house, house_7 is not)
HouseNums == {6, 7}

\* labels written in labels.dat: one that maps to an appliance list, one that
\* maps to a category only, and REDD's label of channels 1 and 2, which the
\* table does not hold
FileLabels == {"smoke_alarms", "lighting", "mains"}

Channels == 1 .. MaxChan
\* meter numbers asked for: every channel, and one past the last
MeterNums == 1 .. (MaxChan + 1)

\* Key objects: building, utility and meter accessors.  '/' is the root key;
\* a meter is addressed below a utility ('/building1/electric/meter3').
RootKey == [building |-> None, utility |-> NoUtility, meter |-> None]
Keys ==
    {RootKey}
    \cup [building : BuildingNums, utility : {NoUtility, "electric"}, meter : {None}]
    \cup [building : BuildingNums, utility : {"electric"}, meter : MeterNums]

\* the lines of a labels.dat: "<channel> <label>", channels listed once each
LabelLine == [chan : Channels, label : FileLabels]
RECURSIVE LabelFiles(_)
LabelFiles(n) ==
    IF n = 0 THEN {<<>>}
    ELSE LET shorter == LabelFiles(n - 1)
         IN shorter \cup
            {Append(f, ln) : f \in {g \in shorter : Len(g) = n - 1},
                             ln \in LabelLine}

Ascending(f) == \A i \in 1 .. (Len(f) - 1) : f[i].chan < f[i + 1].chan

-----------------------------------------------------------------------------
(* Files *)

\* labels.dat of the house directory: absent, or its lines
NoLabels == [exists |-> FALSE, lines |-> <<>>]
\* channel_<chan>.dat of the house directory: chan = None when the house holds
\* no channel file; a row is "<unix timestamp> <power>"
NoChannel == [chan |-> None, rows |-> <<>>]

\* load_labels, lines 83-88: the dict built line by line, a later line of the
\* same channel replacing an earlier one
RECURSIVE load_labels(_)
load_labels(lines) ==
    IF lines = <<>> THEN [c \in {} |-> ""]
    ELSE LET n == Len(lines)
         IN Update(load_labels(SubSeq(lines, 1, n - 1)),
                   [c \in {lines[n].chan} |-> lines[n].label])

\* REDDStore._path_for_house, lines 148-153: the assertion os.path.isdir(path)
\* on <self.path>/house_<building>
path_for_house(dsk, key_obj) == dsk.house = key_obj.building

\* labels.keys(): the channel numbers in the order the dict iterates them,
\* which for the small integers of a labels.dat is ascending
RECURSIVE keys(_)
keys(labels) ==
    IF DOMAIN labels = {} THEN <<>>
    ELSE LET m == CHOOSE c \in DOMAIN labels : \A d \in DOMAIN labels : d <= c
         IN Append(keys([c \in (DOMAIN labels) \ {m} |-> labels[c]]), m)

\* 'meter{:d}'.format(meter), 'building{:d}'.format(b), 'house_{:d}'.format(b)
meter_name(n) == <<"meter", n>>
building_name(b) == <<"building", b>>
house_name(b) == <<"house_", b>>

\* the listing without the filter of line 264
RECURSIVE meters_below_unfiltered(_)
meters_below_unfiltered(ks) ==
    IF ks = <<>> THEN <<>>
    ELSE <<<<"meter", Head(ks)>>>> \o meters_below_unfiltered(Tail(ks))

\* [f(x) for x in s if keep(x)] for the meters listing, line 263-264
RECURSIVE meters_below(_)
meters_below(ks) ==
    IF ks = <<>> THEN <<>>
    ELSE LET rest == meters_below(Tail(ks))
         IN IF Head(ks) \notin {2} THEN <<meter_name(Head(ks))>> \o rest ELSE rest

-----------------------------------------------------------------------------
(* load_metadata, lines 155-238 *)

\* whole-dataset metadata, lines 169-189
dataset_metadata ==
    [meter_devices |->
        [eMonitor |->
            [model |-> "eMonitor",
             manufacturer |-> "Powerhouse Dynamics",
             manufacturer_url |-> "http://powerhousedynamics.com",
             sample_period |-> 3,
             max_sample_period |-> 50,
             measurements |-> <<"power active">>,
             measurement_limits |->
                 [power_active |-> [lower_limit |-> 0, upper_limit |-> 5000]]],
         REDD_whole_house |->
            [sample_period |-> 1,
             max_sample_period |-> 30,
             measurements |-> <<"power active">>,
             measurement_limits |->
                 [power_active |-> [lower_limit |-> 0, upper_limit |-> 50000]]]]]

\* lines 229-236: the instance number given to every appliance of the list:
\* 1 plus the number of i in range(1, meter) with labels[i] == redd_label
count_instances(appliances, labels, meter, redd_label) ==
    [a \in DOMAIN appliances |->
        Update(appliances[a],
               [instance |-> 1 + Cardinality({i \in 1 .. (meter - 1) :
                                                 labels[i] = redd_label})])]

\* line 227 without deepcopy: the appliance dicts of the result are those of
\* the table, and line 236 writes 'instance' into the table
table_after_shared_update(tbl, redd_label, appliances) ==
    [tbl EXCEPT ![redd_label] = Update(@, [appliances |-> appliances])]

\* line 227: meter_metadata.update(deepcopy(MAP[redd_label])): the appliance
\* dicts that receive 'instance' are private copies, the table keeps its entry
table_after_update(tbl, redd_label, appliances) == tbl

\* lines 219-238: appliance metadata of a submeter
appliance_metadata(tbl, dsk, key_obj, meter_metadata) ==
    IF ~path_for_house(dsk, key_obj)
    THEN Raise("AssertionError", "", tbl)
    ELSE IF ~dsk.labels.exists
    THEN Raise("IOError", "labels.dat", tbl)
    ELSE LET labels == load_labels(dsk.labels.lines)
         IN IF key_obj.meter \notin DOMAIN labels
            THEN Raise("ValueError", "not a recognised meter instance", tbl)
            ELSE LET redd_label == labels[key_obj.meter]
                 IN IF redd_label \notin DOMAIN tbl
                    THEN Raise("KeyError", redd_label, tbl)
                    ELSE LET md == Update(meter_metadata, tbl[redd_label])
                             appliances == IF "appliances" \in DOMAIN md
                                           THEN md.appliances ELSE <<>>
                         IN IF appliances # <<>>
                               /\ \E i \in 1 .. (key_obj.meter - 1) : i \notin DOMAIN labels
                            THEN \* labels[i] of a channel the file lacks
                                 Raise("KeyError", "labels[i]", tbl)
                            ELSE IF appliances = <<>>
                            THEN Return(md, tbl)
                            ELSE LET counted == count_instances(appliances, labels,
                                                                key_obj.meter, redd_label)
                                 IN Return(Update(md, [appliances |-> counted]),
                                           table_after_update(tbl, redd_label, counted))

\* lines 203-217 with the branches of lines 210-215 missing: meters 1 and 2
\* are looked up in labels.dat like any other
meter_metadata_no_mains(tbl, dsk, key_obj) ==
    appliance_metadata(tbl, dsk, key_obj,
                       [device_model |-> "eMonitor", instance |-> key_obj.meter,
                        building |-> key_obj.building, dataset |-> "REDD",
                        submeter_of |-> 1])

\* lines 203-217 with "elif key_obj.meter == 2" missing: meter 2 is a submeter
meter_metadata_no_reject(tbl, dsk, key_obj) ==
    IF key_obj.meter = 1
    THEN Return([device_model |-> "REDD_whole_house", instance |-> key_obj.meter,
                 building |-> key_obj.building, dataset |-> "REDD",
                 site_meter |-> TRUE, additional_channels |-> <<2>>], tbl)
    ELSE appliance_metadata(tbl, dsk, key_obj,
                            [device_model |-> "eMonitor", instance |-> key_obj.meter,
                             building |-> key_obj.building, dataset |-> "REDD",
                             submeter_of |-> 1])

\* lines 203-217: meter-level metadata
meter_metadata_of(tbl, dsk, key_obj) ==
    LET meter_metadata ==
            [device_model |-> IF key_obj.meter = 1 THEN "REDD_whole_house" ELSE "eMonitor",
             instance |-> key_obj.meter,
             building |-> key_obj.building,
             dataset |-> "REDD"]
    IN IF key_obj.meter = 1
       THEN Return(Update(meter_metadata,
                          [site_meter |-> TRUE, additional_channels |-> <<2>>]), tbl)
       ELSE IF key_obj.meter = 2
       THEN Raise("ValueError", "Mains channel 2 is loaded by meter1.", tbl)
       ELSE appliance_metadata(tbl, dsk, key_obj,
                               Update(meter_metadata, [submeter_of |-> 1]))

\* the building range test of lines 193 and 254
valid_building(b) == 1 <= b /\ b <= 6

load_metadata(tbl, dsk, key) ==
    IF key = RootKey
    THEN Return(dataset_metadata, tbl)
    ELSE IF ~valid_building(key.building)
    THEN Raise("ValueError", "not a valid building instance", tbl)
    ELSE IF key.meter = None
    THEN Return([instance |-> key.building,
                 dataset |-> "REDD",
                 original_name |-> house_name(key.building)], tbl)
    ELSE meter_metadata_of(tbl, dsk, key)

-----------------------------------------------------------------------------
(* elements_below_key, lines 240-264 *)

elements_below_key(tbl, dsk, key) ==
    IF key = RootKey
    THEN Return([i \in 1 .. 6 |-> building_name(i)], tbl)
    ELSE IF key.meter # None
    THEN Raise("AssertionError", "", tbl)
    ELSE IF ~valid_building(key.building)
    THEN Raise("ValueError", "not a valid building instance", tbl)
    ELSE IF key.utility = NoUtility
    THEN Return(<<"electric">>, tbl)
    ELSE IF ~path_for_house(dsk, key)
    THEN Raise("AssertionError", "", tbl)
    ELSE IF ~dsk.labels.exists
    THEN Raise("IOError", "labels.dat", tbl)
    ELSE Return(meters_below(keys(load_labels(dsk.labels.lines))), tbl)

\* REDDStore.__init__, lines 92-102
init(tbl, p) ==
    IF ~isdir(p) THEN Raise("ValueError", "is not a valid path", tbl)
    ELSE Return(p, tbl)

-----------------------------------------------------------------------------
(* load, lines 104-146 *)

\* line 137: seconds since the epoch become nanoseconds
NsPerSecond == 1000000000

\* unix timestamps and power readings written in a channel file; the readings
\* are values float32 holds exactly
TsDomain == {1, 2}
Readings == {0, 5}
Row == [ts : TsDomain, power : Readings]

RECURSIVE ChannelFiles(_)
ChannelFiles(n) ==
    IF n = 0 THEN {<<>>}
    ELSE LET shorter == ChannelFiles(n - 1)
         IN shorter \cup
            {Append(f, r) : f \in {g \in shorter : Len(g) = n - 1}, r \in Row}

\* line 137: pd.to_datetime((index * 1E9).astype(int), utc=True)
to_datetime(ts) == [ns |-> ts * NsPerSecond, tz |-> "UTC"]
\* line 138: the same instants, shown in US/Eastern
tz_convert(d) == [d EXCEPT !.tz = "US/Eastern"]

\* lines 130-133: a row of the file as read_csv holds it: the timestamp is
\* the index, the reading the float32 column Power('active')
read_row(r) == [index |-> r.ts, power_active |-> r.power]

\* line 136 left out: the rows in file order
unsorted_index(rows) == {rows}

\* line 136, df.sort_index(): the rows in ascending index order.  The sort is
\* not a stable one, so rows of equal index come out in any order: the set of
\* the frames sort_index may return
sort_index(rows) ==
    LET n == Len(rows)
        perms == {p \in [1 .. n -> 1 .. n] :
                     /\ \A i, j \in 1 .. n : i # j => p[i] # p[j]
                     /\ \A i \in 1 .. (n - 1) : rows[p[i]].index <= rows[p[i + 1]].index}
    IN {[i \in 1 .. n |-> rows[p[i]]] : p \in perms}

\* lines 137-138 applied to every row of the sorted frame
convert_index(rows) ==
    [i \in DOMAIN rows |-> [rows[i] EXCEPT !.index = tz_convert(to_datetime(@))]]

\* lines 139-140: TimeFrame(df.index[0], df.index[-1]) with include_end
timeframe_of(rows) ==
    [start |-> rows[1].index, end |-> rows[Len(rows)].index, include_end |-> TRUE]

NoTimeFrame == [start |-> tz_convert(to_datetime(0)), end |-> tz_convert(to_datetime(0)),
                include_end |-> FALSE]

\* the time windows a caller passes: TimeFrame objects of whole seconds, here
\* two that overlap: [0 s, 2 s) and [1 s, 2 s]
Window(a, b, closed) ==
    [start |-> tz_convert(to_datetime(a)), end |-> tz_convert(to_datetime(b)),
     include_end |-> closed]
Windows == {Window(0, 2, FALSE), Window(1, 2, TRUE)}

RECURSIVE PeriodLists(_)
PeriodLists(n) ==
    IF n = 0 THEN {<<>>}
    ELSE LET shorter == PeriodLists(n - 1)
         IN shorter \cup
            {Append(f, w) : f \in {g \in shorter : Len(g) = n - 1}, w \in Windows}

\* the periods argument: None, or a list of TimeFrame objects
NoPeriods == [given |-> FALSE, list |-> <<>>]
PeriodArgs == {NoPeriods} \cup [given : {TRUE}, list : PeriodLists(MaxPeriods)]

\* "if periods:" of line 142: a list that is given and not empty
truthy(periods) == periods.given /\ periods.list # <<>>

RECURSIVE select_rows(_, _)
select_rows(rows, period) ==
    IF rows = <<>> THEN <<>>
    ELSE LET rest == select_rows(Tail(rows), period)
             t == Head(rows).index.ns
         IN IF period.start.ns <= t
               /\ (t < period.end.ns \/ (period.include_end /\ t = period.end.ns))
            THEN <<Head(rows)>> \o rest ELSE rest

\* TimeFrame.slice(df): the rows of df inside the window, tagged with the window
slice(period, df) == [rows |-> select_rows(df, period), timeframe |-> period]

\* the keys load is called with
LoadKeys == [building : HouseNums, utility : {"electric"}, meter : {1, 2}]

\* the generator object a load() call returns.  state: "created" (no line of
\* the body has run), "suspended" (at a yield), "finished"; df and timeframe:
\* the locals of the body once lines 130-140 have run; k: segments yielded so
\* far; reads: channel files opened so far
NoGen ==
    [state |-> "none", key |-> RootKey, periods |-> NoPeriods, df |-> <<>>,
     timeframe |-> NoTimeFrame, k |-> 0, reads |-> 0]

\* load as a plain function that reads the channel file when it is called
load_eager(dsk, key, periods) ==
    [state |-> "created", key |-> key, periods |-> periods, df |-> <<>>,
     timeframe |-> NoTimeFrame, k |-> 0, reads |-> 1]

\* line 104: calling a generator function runs none of its body, whatever
\* the disk holds
load(dsk, key, periods) ==
    [state |-> "created", key |-> key, periods |-> periods, df |-> <<>>,
     timeframe |-> NoTimeFrame, k |-> 0, reads |-> 0]

\* the segment yielded at the yield the body reaches next, lines 142-146
yield_at(g, df, timeframe) ==
    IF truthy(g.periods)
    THEN slice(g.periods.list[g.k + 1], df)
    ELSE [rows |-> df, timeframe |-> timeframe]

\* lines 142-146 with the loop over periods cut to its first round
has_next_first_only(g) == FALSE

\* whether the body has a further yield after k segments, lines 142-146
has_next(g) == IF truthy(g.periods) THEN g.k < Len(g.periods.list) ELSE g.k < 1

-----------------------------------------------------------------------------
(* The metadata and hierarchy operations as a state machine *)

\* the record kept of a call: the operation, its key, the disk it ran against
\* and its outcome; n is the parity of the number of calls made so far
Call(op, key, dsk, r) ==
    [op |-> op, key |-> key, disk |-> dsk, status |-> r.status, value |-> r.value,
     n |-> 1 - last.n]

\* the construction the adapter in use comes from
Constructed(dsk, r) ==
    [op |-> "__init__", key |-> RootKey, disk |-> dsk, status |-> r.status,
     value |-> r.value, n |-> 0]


\* dataset directories: no house directory, or one house directory holding
\* no labels.dat or a labels.dat of at most MaxChan lines
MetaDisks ==
    {[house |-> None, labels |-> NoLabels, channel |-> NoChannel]}
    \cup [house : HouseNums,
          labels : {NoLabels} \cup
                   [exists : {TRUE},
                    lines : {f \in LabelFiles(MaxChan) : Ascending(f)}],
          channel : {NoChannel}]

\* the adapter has been constructed on RootPath
Init ==
    /\ self_path = RootPath
    /\ table = MAP_REDD_LABELS_TO_NILMTK
    /\ disk \in MetaDisks
    /\ last = Constructed(disk, init(table, RootPath))
    /\ gen = NoGen

\* REDDStore(p): a failed construction leaves the adapter in use as it is
Construct ==
    \E p \in Paths :
        LET r == init(table, p)
        IN /\ self_path' = IF r.status = "ok" THEN r.value ELSE self_path
           /\ last' = Call("__init__", RootKey, disk, r)
           /\ UNCHANGED <<table, disk, gen>>

CallLoadMetadata ==
    \E key \in Keys :
        LET r == load_metadata(table, disk, key)
        IN /\ last' = Call("load_metadata", key, disk, r)
           /\ table' = r.table
           /\ UNCHANGED <<self_path, disk, gen>>

CallElementsBelowKey ==
    \E key \in Keys :
        LET r == elements_below_key(table, disk, key)
        IN /\ last' = Call("elements_below_key", key, disk, r)
           /\ table' = r.table
           /\ UNCHANGED <<self_path, disk, gen>>

\* the dataset changes on disk: a line for a further channel is added to labels.dat
AppendLabel ==
    \E ln \in LabelLine :
        /\ disk.labels.exists
        /\ \A i \in 1 .. Len(disk.labels.lines) : disk.labels.lines[i].chan < ln.chan
        /\ disk' = [disk EXCEPT !.labels.lines = Append(@, ln)]
        /\ UNCHANGED <<self_path, table, last, gen>>

Next ==
    \/ Construct
    \/ CallLoadMetadata
    \/ CallElementsBelowKey
    \/ AppendLabel

Spec == Init /\ [][Next]_vars

-----------------------------------------------------------------------------
(* load as a state machine: the call, and the caller's next() on the generator *)

\* dataset directories: no house directory, or one house directory holding
\* channel_1.dat with at most MaxRows rows
LoadDisks ==
    {[house |-> None, labels |-> NoLabels, channel |-> NoChannel]}
    \cup [house : HouseNums,
          labels : {NoLabels},
          channel : [chan : {1}, rows : ChannelFiles(MaxRows)]]

LoadInit ==
    /\ self_path = RootPath
    /\ table = MAP_REDD_LABELS_TO_NILMTK
    /\ disk \in LoadDisks
    /\ last = Constructed(disk, init(table, RootPath))
    /\ gen = NoGen

\* redd.load(key, periods)
CallLoad ==
    \E key \in LoadKeys, periods \in PeriodArgs :
        /\ gen' = load(disk, key, periods)
        /\ last' = Call("load", key, disk, Return(<<>>, table))
        /\ UNCHANGED <<self_path, table, disk>>

Finished(g) == [g EXCEPT !.state = "finished"]

\* the first next(): the body runs from line 122 to its first yield
FirstNext ==
    /\ gen.state = "created"
    /\ IF ~path_for_house(disk, gen.key)
       THEN \* line 152
            /\ gen' = Finished(gen)
            /\ last' = Call("next", gen.key, disk, Raise("AssertionError", "", table))
       ELSE IF disk.channel.chan # gen.key.meter
       THEN \* line 130: no such file
            /\ gen' = [Finished(gen) EXCEPT !.reads = 1]
            /\ last' = Call("next", gen.key, disk, Raise("IOError", "channel file", table))
       ELSE IF disk.channel.rows = <<>>
       THEN \* an empty file: read_csv finds no data to parse (a ValueError), or
            \* it returns an empty frame and df.index[0] of line 139 fails
            \E cls \in {"ValueError", "IndexError"} :
                /\ gen' = [Finished(gen) EXCEPT !.reads = 1]
                /\ last' = Call("next", gen.key, disk, Raise(cls, "no rows", table))
       ELSE \E sorted \in sort_index([i \in DOMAIN disk.channel.rows |->
                                         read_row(disk.channel.rows[i])]) :
                LET df == convert_index(sorted)
                    timeframe == timeframe_of(df)
                IN /\ gen' = [gen EXCEPT !.state = "suspended", !.df = df,
                                         !.timeframe = timeframe, !.k = 1, !.reads = 1]
                   /\ last' = Call("next", gen.key, disk,
                                   Return(yield_at(gen, df, timeframe), table))
    /\ UNCHANGED <<self_path, table, disk>>

\* a further next(): the body resumes after the yield it is suspended at
ResumeNext ==
    /\ gen.state = "suspended"
    /\ IF has_next(gen)
       THEN /\ gen' = [gen EXCEPT !.k = @ + 1]
            /\ last' = Call("next", gen.key, disk,
                            Return(yield_at(gen, gen.df, gen.timeframe), table))
       ELSE /\ gen' = Finished(gen)
            /\ last' = Call("next", gen.key, disk, Raise("StopIteration", "", table))
    /\ UNCHANGED <<self_path, table, disk>>

\* next() on a generator that has returned or raised
NextAfterEnd ==
    /\ gen.state = "finished"
    /\ last' = Call("next", gen.key, disk, Raise("StopIteration", "", table))
    /\ UNCHANGED <<self_path, table, disk, gen>>

LoadNext ==
    \/ CallLoad
    \/ FirstNext
    \/ ResumeNext
    \/ NextAfterEnd

LoadSpec == LoadInit /\ [][LoadNext]_vars

-----------------------------------------------------------------------------
(* Properties of load_metadata and elements_below_key, checked under Spec *)

\* the channel-to-label dict of the labels.dat a call read
LabelsOf(dsk) == load_labels(dsk.labels.lines)

\* the call ran against a house directory of its building that holds a labels.dat
HouseRead(c) == c.disk.house = c.key.building /\ c.disk.labels.exists

\* C1: for every building number 1..6 and every content of the house's
\* labels.dat (also one without channels 1 or 2, or none at all), load_metadata
\* on meter 1 returns metadata with site_meter = true and
\* additional_channels = [2] and without a submeter_of entry.
MeterOneIsSiteMeter ==
    (last.op = "load_metadata" /\ last.key.meter = 1 /\ last.key.building \in 1 .. 6)
    => /\ last.status = "ok"
       /\ {"site_meter", "additional_channels"} \subseteq DOMAIN last.value
       /\ last.value.site_meter = TRUE
       /\ last.value.additional_channels = <<2>>
       /\ "submeter_of" \notin DOMAIN last.value

\* C1 witness: meter 1 of building 6 was asked for while labels.dat of house_6
\* lists neither channel 1 nor channel 2
MeterOneWithoutMainsLines ==
    /\ last.op = "load_metadata" /\ last.key.meter = 1 /\ last.key.building = 6
    /\ HouseRead(last)
    /\ DOMAIN LabelsOf(last.disk) = {3}
    /\ last.status = "ok" /\ last.value.site_meter = TRUE

\* C2: load_metadata on meter 2 fails for any building number, inside or
\* outside 1..6, and any labels.dat, also one in which channel 2 carries a label
\* of the mapping table; it never returns metadata.
MeterTwoAlwaysFails ==
    (last.op = "load_metadata" /\ last.key.meter = 2)
    => last.status = "ValueError"

\* C2 witness: meter 2 of building 6 was refused although labels.dat of
\* house_6 lists channels 1 and 2 with a label of the mapping table
MeterTwoWithMappedLabel ==
    /\ last.op = "load_metadata" /\ last.key.meter = 2 /\ last.key.building = 6
    /\ HouseRead(last)
    /\ {1, 2} \subseteq DOMAIN LabelsOf(last.disk)
    /\ LabelsOf(last.disk)[1] \in DOMAIN MAP_REDD_LABELS_TO_NILMTK
    /\ LabelsOf(last.disk)[2] \in DOMAIN MAP_REDD_LABELS_TO_NILMTK
    /\ last.status = "ValueError"

\* the call asked for a submeter m > 2 that labels.dat lists with a label the
\* table maps to a list of appliances
SubmeterWithAppliances(c) ==
    /\ c.op = "load_metadata" /\ c.key.meter > 2 /\ c.key.building \in 1 .. 6
    /\ HouseRead(c)
    /\ c.key.meter \in DOMAIN LabelsOf(c.disk)
    /\ LabelsOf(c.disk)[c.key.meter] \in DOMAIN MAP_REDD_LABELS_TO_NILMTK
    /\ "appliances" \in DOMAIN MAP_REDD_LABELS_TO_NILMTK[LabelsOf(c.disk)[c.key.meter]]

\* every appliance of the result carries 1 + the number of lower channels of
\* labels.dat with the label of the meter
InstancesCounted(c) ==
    LET labels == LabelsOf(c.disk)
        m == c.key.meter
    IN /\ c.status = "ok"
       /\ "appliances" \in DOMAIN c.value
       /\ c.value.appliances # <<>>
       /\ \A a \in DOMAIN c.value.appliances :
              c.value.appliances[a].instance =
                  1 + Cardinality({ch \in DOMAIN labels : ch < m /\ labels[ch] = labels[m]})

\* C3: for every labels.dat and every meter m > 2 in it whose label maps to a
\* list of appliances, load_metadata gives each listed appliance instance =
\* 1 + (number of channels c of the file with c < m and the label of m), also
\* when the channel numbers below m are not contiguous.
InstanceCountsLowerChannels ==
    SubmeterWithAppliances(last) => InstancesCounted(last)

\* C3, the part the code satisfies: the same, for a labels.dat that lists
\* every channel 1 .. m-1
InstanceCountsContiguous ==
    (SubmeterWithAppliances(last)
     /\ \A ch \in 1 .. (last.key.meter - 1) : ch \in DOMAIN LabelsOf(last.disk))
    => InstancesCounted(last)

\* C3: a second channel of a label got instance 2
SecondInstanceCounted ==
    /\ SubmeterWithAppliances(last)
    /\ last.status = "ok"
    /\ last.value.appliances[1].instance = 2

\* the identifiers of a listing
Elements(c) == {c.value[i] : i \in DOMAIN c.value}

\* C4: for every building 1..6 and every labels.dat, elements_below_key at the
\* utility level returns exactly one identifier 'meter<N>' for each channel
\* number N of the file other than 2 and nothing else: never 'meter2', and
\* 'meter1' only if the file lists channel 1.
UtilityListsMetersButTwo ==
    (/\ last.op = "elements_below_key"
     /\ last.key.meter = None /\ last.key.utility = "electric"
     /\ last.key.building \in 1 .. 6
     /\ HouseRead(last))
    => /\ last.status = "ok"
       /\ \A i, j \in DOMAIN last.value : i # j => last.value[i] # last.value[j]
       /\ Elements(last) = {<<"meter", n>> : n \in (DOMAIN LabelsOf(last.disk)) \ {2}}
       /\ <<"meter", 2>> \notin Elements(last)
       /\ (<<"meter", 1>> \in Elements(last)) <=> (1 \in DOMAIN LabelsOf(last.disk))

\* C4 witness: the meters of building 6 were listed from a labels.dat with
\* channels 2 and 3 but not 1
ListingWithChannelTwo ==
    /\ last.op = "elements_below_key"
    /\ last.key.meter = None /\ last.key.utility = "electric" /\ last.key.building = 6
    /\ HouseRead(last)
    /\ DOMAIN LabelsOf(last.disk) = {2, 3}
    /\ last.status = "ok"
    /\ last.value = <<<<"meter", 3>>>>

\* C5: every failure of the adapter's operations is raised as a ValueError: a
\* non-directory construction path, a building number outside 1..6, a meter
\* number absent from labels.dat, a query of meter 2, a label with no entry in
\* the mapping table and a missing house directory produce that error kind and
\* no other (no assertion failure, no key-lookup error).
FailuresAreValueErrors ==
    (/\ last.op \in {"__init__", "load_metadata", "elements_below_key"}
     /\ (last.op = "elements_below_key" => last.key.meter = None)
     /\ (last.disk.house # None => last.disk.labels.exists))
    => last.status \in {"ok", "ValueError"}

\* a step in which an operation is called again with the key of the call before
Repeated(op) ==
    /\ last'.n # last.n
    /\ last.op = op /\ last'.op = op
    /\ last'.key = last.key

-----------------------------------------------------------------------------
(* Properties of load, checked under LoadSpec *)

\* the number of segments the generator is to yield: one per window, or one
NumSegments(g) == IF g.periods.given /\ Len(g.periods.list) > 0
                  THEN Len(g.periods.list) ELSE 1

\* the rows of frame df whose timestamp lies in window w, in the order of df
InWindow(r, w) ==
    /\ w.start.ns <= r.index.ns
    /\ IF w.include_end THEN r.index.ns <= w.end.ns ELSE r.index.ns < w.end.ns
Sliced(df, w) == SelectSeq(df, LAMBDA r : InWindow(r, w))

\* the segment a next() returned is the one the claim describes
SegmentAsClaimed ==
    IF gen.periods.given /\ Len(gen.periods.list) > 0
    THEN /\ last.value.rows = Sliced(gen.df, gen.periods.list[gen.k])
         /\ last.value.timeframe = gen.periods.list[gen.k]
    ELSE /\ last.value.rows = gen.df
         /\ last.value.timeframe.start = gen.df[1].index
         /\ last.value.timeframe.end = gen.df[Len(gen.df)].index
         /\ last.value.timeframe.include_end

\* the generator's channel file exists
ChannelFileExists ==
    /\ gen.state # "none"
    /\ disk.house = gen.key.building
    /\ disk.channel.chan = gen.key.meter

SegmentsAsClaimed ==
    /\ (last.op = "next") => last.status \in {"ok", "StopIteration"}
    /\ (last.op = "next" /\ last.status = "ok") => SegmentAsClaimed
    /\ (gen.state = "finished") => gen.k = NumSegments(gen)

Count(s, Test(_)) == Cardinality({i \in DOMAIN s : Test(s[i])})

\* C7: for every channel file, whatever the order of its rows, the data load
\* produces is in ascending timestamp order and holds exactly the rows of the
\* file (the same multiset of timestamp/value pairs); the recorded time span
\* starts at the minimum and ends at the maximum timestamp of the file.
LoadedDataSortedAndComplete ==
    (gen.k >= 1) =>
        LET rows == disk.channel.rows
            df == gen.df
        IN /\ Len(df) = Len(rows)
           /\ \A i \in 1 .. (Len(df) - 1) : df[i].index.ns <= df[i + 1].index.ns
           /\ \A r \in Row :
                  Count(df, LAMBDA d : d.index.ns = r.ts * NsPerSecond
                                       /\ d.power_active = r.power)
                  = Count(rows, LAMBDA x : x = r)
           /\ \A i \in DOMAIN rows :
                  /\ gen.timeframe.start.ns <= rows[i].ts * NsPerSecond
                  /\ rows[i].ts * NsPerSecond <= gen.timeframe.end.ns
           /\ \E i, j \in DOMAIN rows :
                  /\ gen.timeframe.start.ns = rows[i].ts * NsPerSecond
                  /\ gen.timeframe.end.ns = rows[j].ts * NsPerSecond
           /\ (last.op = "next" /\ last.status = "ok" /\ ~truthy(gen.periods))
              => last.value = [rows |-> df, timeframe |-> gen.timeframe]

\* C7 witness: a file of three rows, the later timestamp first and one
\* timestamp twice with different readings, has been loaded whole
UnorderedFileLoaded ==
    /\ gen.k = 1 /\ ~truthy(gen.periods)
    /\ last.op = "next" /\ last.status = "ok"
    /\ Len(disk.channel.rows) = 3
    /\ disk.channel.rows[1].ts > disk.channel.rows[2].ts
    /\ disk.channel.rows[1].ts = disk.channel.rows[3].ts
    /\ disk.channel.rows[1].power # disk.channel.rows[3].power

\* C8: a load invocation produces its segments lazily: the segment for window
\* k+1 is not computed until the caller has taken the segment for window k and
\* asks for the next; the sequence ends after finitely many segments and, once
\* exhausted, produces no further segment unless load is invoked again.  No
\* file access, and no failure for a missing house directory or channel file,
\* happens at invocation time, only when the first segment is requested.
LazySegments ==
    /\ [](gen.state = "created"
          => /\ gen.reads = 0 /\ gen.k = 0
             /\ last.op = "load" /\ last.status = "ok")
    /\ [](gen.k <= NumSegments(gen))
    /\ [][gen'.k # gen.k
          => \/ /\ gen'.k = gen.k + 1
                /\ last'.op = "next" /\ last'.status = "ok"
             \/ /\ gen'.state = "created"
                /\ last'.op = "load"]_vars
    /\ [][gen'.reads > gen.reads => (last'.op = "next" /\ gen.state = "created")]_vars
    /\ [][(gen.state = "finished" /\ last'.n # last.n /\ last'.op # "load")
          => (gen' = gen /\ last'.status = "StopIteration")]_vars

\* C8 witness: load was called for a building whose house directory is
\* missing, with two windows, and nothing has happened but the return of the
\* generator
CreatedWithoutHouse ==
    /\ gen.state = "created"
    /\ disk.house = None
    /\ Len(gen.periods.list) = 2
    /\ last.op = "load" /\ last.status = "ok"

\* C10: building numbers are integers 1..6 for every operation: no operation
\* taking a building-specific key (load, load_metadata, elements_below_key at
\* building or utility level) returns a result for a building number outside
\* 1..6, even when a directory house_<n> for that number exists; root-level
\* elements_below_key returns exactly building1..building6.
OnlyBuildingsOneToSix ==
    /\ (/\ last.op \in {"next", "load_metadata", "elements_below_key"}
        /\ last.key # RootKey
        /\ last.key.building \notin 1 .. 6)
       => last.status # "ok"
    /\ (last.op = "elements_below_key" /\ last.key = RootKey)
       => last.value = <<<<"building", 1>>, <<"building", 2>>, <<"building", 3>>,
                         <<"building", 4>>, <<"building", 5>>, <<"building", 6>>>>

\* C10, the part the code satisfies: the same without load
MetadataOnlyBuildingsOneToSix ==
    (last.op # "next") => OnlyBuildingsOneToSix
====
